---- MODULE Spec2Model ----
(***************************************************************************)
(* Model of the element DSL: Settings.normalizeSettings, the documentation *)
(* Parser (walk / visit) and the ElementHandle wrapper around a puppeteer  *)
(* element handle.                                                         *)
(***************************************************************************)
EXTENDS Integers, Sequences, FiniteSets, TLC

VARIABLES
    settings,       \* the TestSettings object handed to normalizeSettings (mutated in place)
    input,          \* the field values of that object when it was constructed
    normalizeCalls, \* number of normalizeSettings calls applied to the object
    typeDoc,        \* Parser.typeDoc: the reflection tree, node 1 is the root
    indexTS,        \* the exports declared by the index file the Parser was given
    index,          \* Parser.index
    documents,      \* Parser.documents: file -> the writes made to its APIDocument
    visits,         \* the calls of Parser.visit made so far, in order
    invocations,    \* the visitor invocations made so far, in order
    parserCall,     \* the last Parser method called and what it was given
    element,        \* the DOM node behind the puppeteer handle the ElementHandle wraps
    errorString,    \* ElementHandle.errorString
    promises        \* the promises of the ElementHandle call in progress: promises[1] is
                    \* the called operation, the others are the async functions and the
                    \* puppeteer calls it started, in order of creation

settingsVars == <<settings, input, normalizeCalls>>
parserVars == <<typeDoc, indexTS, index, documents, visits, invocations, parserCall>>
handleVars == <<element, errorString, promises>>
vars == <<settingsVars, parserVars, handleVars>>

(***************************************************************************)
(* Numbers.  A JavaScript number n / 1000^k is the record [num, den] with  *)
(* den = 1000^k and k minimal, so that equal numbers are equal records and *)
(* a division by 1e3 is exact.                                             *)
(***************************************************************************)
Reduce(n, d) ==
    IF d >= 1000000 /\ n % 1000000 = 0 THEN [num |-> n \div 1000000, den |-> d \div 1000000]
    ELSE IF d >= 1000 /\ n % 1000 = 0 THEN [num |-> n \div 1000, den |-> d \div 1000]
    ELSE [num |-> n, den |-> d]

Num(n) == [t |-> "number", num |-> n, den |-> 1]
Frac(n, d) == [t |-> "number", num |-> Reduce(n, d).num, den |-> Reduce(n, d).den]
Undefined == [t |-> "undefined"]
Null == [t |-> "null"]

\* typeof x === 'number'
IsNumber(x) == x.t = "number"
\* x > n for a number x and an integer literal n
GreaterThan(x, n) == x.num > n * x.den
\* x / 1e3
DivideBy1e3(x) == Frac(x.num, x.den * 1000)
\* Number(x) === 0 : Number(undefined) is NaN, Number(null) is 0
NumberIsZero(x) ==
    CASE x.t = "number" -> x.num = 0
      [] x.t = "null" -> TRUE
      [] OTHER -> FALSE

DEFAULT_STEP_WAIT_SECONDS == Num(5)
DEFAULT_ACTION_WAIT_SECONDS == Frac(500, 1000)
DEFAULT_WAIT_TIMEOUT == Num(30)

(***************************************************************************)
(* Settings.normalizeSettings: three consecutive if / else-if statements,  *)
(* each reading the object left by the previous one.                       *)
(***************************************************************************)
\* the waitTimeout statement as it would be with the default given in
\* milliseconds
normalizeWaitTimeout_defaultInMs(s) ==
    IF IsNumber(s.waitTimeout) /\ GreaterThan(s.waitTimeout, 1000)
    THEN [s EXCEPT !.waitTimeout = DivideBy1e3(s.waitTimeout)]
    ELSE IF NumberIsZero(s.waitTimeout)
    THEN [s EXCEPT !.waitTimeout = Num(30000)]
    ELSE s

normalizeWaitTimeout(s) ==
    IF IsNumber(s.waitTimeout) /\ GreaterThan(s.waitTimeout, 1000)
    THEN [s EXCEPT !.waitTimeout = DivideBy1e3(s.waitTimeout)]
    ELSE IF NumberIsZero(s.waitTimeout)
    THEN [s EXCEPT !.waitTimeout = DEFAULT_WAIT_TIMEOUT]
    ELSE s

normalizeActionDelay(s) ==
    IF IsNumber(s.actionDelay) /\ GreaterThan(s.actionDelay, 60)
    THEN [s EXCEPT !.actionDelay = DivideBy1e3(s.actionDelay)]
    ELSE IF NumberIsZero(s.actionDelay)
    THEN [s EXCEPT !.actionDelay = DEFAULT_ACTION_WAIT_SECONDS]
    ELSE s

normalizeStepDelay(s) ==
    IF IsNumber(s.stepDelay) /\ GreaterThan(s.stepDelay, 60)
    THEN [s EXCEPT !.stepDelay = DivideBy1e3(s.stepDelay)]
    ELSE IF NumberIsZero(s.stepDelay)
    THEN [s EXCEPT !.actionDelay = DEFAULT_STEP_WAIT_SECONDS]
    ELSE s

normalizeSettings(s) == normalizeStepDelay(normalizeActionDelay(normalizeWaitTimeout(s)))

(***************************************************************************)
(* Inputs of normalizeSettings: the integers within MaxDelta of each of    *)
(* the magnitudes the rules distinguish, a fraction, undefined and null.   *)
(***************************************************************************)
MaxDelta == 1
MaxNormalize == 2

Magnitudes == {0, 60, 1000, 60000, 1000000}
SampleNumbers ==
    {Num(m + d) : m \in Magnitudes, d \in (0 - MaxDelta)..MaxDelta} \cup {Frac(500, 1000)}
SettingValues == SampleNumbers \cup {Undefined, Null}
DurationValues == {Undefined, Num(0 - 1), Num(2000)}

TestSettings ==
    [waitTimeout : SettingValues, actionDelay : SettingValues,
     stepDelay : SettingValues, duration : DurationValues]

InitSettings ==
    /\ settings \in TestSettings
    /\ input = settings
    /\ normalizeCalls = 0

\* normalizeSettings(settings): the object is updated in place and returned
NormalizeSettings ==
    /\ normalizeCalls < MaxNormalize
    /\ settings' = normalizeSettings(settings)
    /\ normalizeCalls' = normalizeCalls + 1
    /\ UNCHANGED <<input, parserVars, handleVars>>

NextSettings == NormalizeSettings


(***************************************************************************)
(* Claims about normalizeSettings                                          *)
(***************************************************************************)
\* the unit rule of one field: above the threshold the value is divided by
\* 1000, a non-zero number at or below it is kept
UnitRule(x, threshold, out) ==
    IsNumber(x) =>
        /\ GreaterThan(x, threshold) => out = DivideBy1e3(x)
        /\ (~GreaterThan(x, threshold) /\ x.num # 0) => out = x

\* C4: after normalizeSettings a numeric waitTimeout above 1000, actionDelay
\* above 60 and stepDelay above 60 have been divided by 1000, and a non-zero
\* numeric value at or below its threshold is returned unchanged.
C4_UnitGuessing ==
    normalizeCalls = 1 =>
        /\ UnitRule(input.waitTimeout, 1000, settings.waitTimeout)
        /\ UnitRule(input.actionDelay, 60, settings.actionDelay)
        /\ UnitRule(input.stepDelay, 60, settings.stepDelay)

\* C10: each rule changes only its own field: the normalized actionDelay,
\* stepDelay and waitTimeout each depend on the same input field alone, a
\* stepDelay of 0 becomes DEFAULT_STEP_WAIT_SECONDS in stepDelay, and every
\* other field is returned unchanged.
C10_OwnFieldOnly ==
    normalizeCalls = 1 =>
        /\ \A a \in SettingValues, b \in SettingValues :
              /\ normalizeSettings([input EXCEPT !.waitTimeout = a, !.stepDelay = b]).actionDelay
                    = settings.actionDelay
              /\ normalizeSettings([input EXCEPT !.waitTimeout = a, !.actionDelay = b]).stepDelay
                    = settings.stepDelay
              /\ normalizeSettings([input EXCEPT !.actionDelay = a, !.stepDelay = b]).waitTimeout
                    = settings.waitTimeout
        /\ input.stepDelay = Num(0) => settings.stepDelay = DEFAULT_STEP_WAIT_SECONDS
        /\ settings.duration = input.duration

(***************************************************************************)
(* Parser.  A reflection tree of n nodes is a function from 1..n to node   *)
(* records; node 1 is the root, parent is the id of the enclosing node and *)
(* the children of a node are listed in ascending id.                      *)
(***************************************************************************)
MaxNodes == 4
MaxVisitCalls == 1

NoDoc == "undefined"
NoKind == "undefined"

RECURSIVE SetToSeq(_)
SetToSeq(S) ==
    IF S = {} THEN <<>>
    ELSE LET m == CHOOSE x \in S : \A y \in S : x <= y
         IN <<m>> \o SetToSeq(S \ {m})

\* node.children
children(tree, n) == SetToSeq({c \in DOMAIN tree : tree[c].parent = n})

\* utils/predicates
isClassReflection(node) == node.kindString = "Class"
isMethodReflection(node) == node.kindString = "Method"
isNodeInternal(node) == node.internal
isCallableNode(node) == Len(node.signatures) > 0

\* an APIDocument method call recorded in the document
Write(docs, doc, entry) == [docs EXCEPT ![doc] = Append(@, entry)]

\* Parser.writeComment
writeComment(docs, doc, comment) ==
    LET d1 == IF comment.shortText THEN Write(docs, doc, <<"comment", "shortText">>) ELSE docs
    IN IF comment.text THEN Write(d1, doc, <<"comment", "text">>) ELSE d1

\* Parser.visitClassComment
visitClassComment(docs, doc, comment) ==
    IF ~comment.tags THEN docs ELSE Write(docs, doc, <<"frontmatter">>)

\* Parser.visitClass
visitClass(node, doc, docs) ==
    IF doc = NoDoc THEN docs
    ELSE LET d1 == Write(docs, doc, <<"section", node.name>>)
             d2 == writeComment(d1, doc, node.comment)
         IN IF node.comment.present THEN visitClassComment(d2, doc, node.comment) ELSE d2

\* Parser.visitCallSignature
visitCallSignature(signature, doc, docs) ==
    IF ~signature.parameters THEN docs ELSE Write(docs, doc, <<"callSignature">>)

RECURSIVE visitSignatures(_, _, _)
visitSignatures(sigs, doc, docs) ==
    IF sigs = <<>> THEN docs
    ELSE visitSignatures(Tail(sigs), doc, visitCallSignature(Head(sigs), doc, docs))

\* Parser.visitMethod
visitMethod(node, doc, docs) ==
    IF isMethodReflection(node) /\ doc # NoDoc
    THEN IF isNodeInternal(node) THEN docs
         ELSE IF isCallableNode(node) THEN visitSignatures(node.signatures, doc, docs)
         ELSE docs
    ELSE docs

\* visitVariable, visitFunction, visitProperty, visitExternalModule, visitAlias,
\* visitObjectLiteral: no document is touched
visitNothing(node, doc, docs) == docs

\* Parser.visitors
visitors ==
    [k \in {"Variable", "Module", "Enumeration", "Class", "Interface", "Function", "Property",
            "Method", "External module", "Type alias", "Object literal"} |->
        CASE k = "Variable" -> "visitVariable"
          [] k \in {"Module", "Enumeration", "Class", "Interface"} -> "visitClass"
          [] k = "Function" -> "visitFunction"
          [] k = "Property" -> "visitProperty"
          [] k = "Method" -> "visitMethod"
          [] k = "External module" -> "visitExternalModule"
          [] k = "Type alias" -> "visitAlias"
          [] k = "Object literal" -> "visitObjectLiteral"]

\* visitor.apply(this, [node, doc])
apply(visitor, node, doc, docs) ==
    CASE visitor = "visitClass" -> visitClass(node, doc, docs)
      [] visitor = "visitMethod" -> visitMethod(node, doc, docs)
      [] OTHER -> visitNothing(node, doc, docs)

\* visit as it would be if an unknown kind fell back to the class visitor
visit_fallback(tree, n, doc, st) ==
    LET node == tree[n]
        st1 == [st EXCEPT !.visits = Append(@, [node |-> n, doc |-> doc])]
        v == IF node.kindString \in DOMAIN visitors THEN visitors[node.kindString]
             ELSE "visitClass"
    IN IF node.kindString # NoKind /\ node.kindString # ""
       THEN [st1 EXCEPT
               !.invocations = Append(@, [visitor |-> v, node |-> n, doc |-> doc]),
               !.documents = apply(v, node, doc, @)]
       ELSE st1

\* Parser.visit; st is the parser state [documents, visits, invocations]
visit(tree, n, doc, st) ==
    LET node == tree[n]
        st1 == [st EXCEPT !.visits = Append(@, [node |-> n, doc |-> doc])]
    IN IF node.kindString # NoKind /\ node.kindString # ""
       THEN IF node.kindString \in DOMAIN visitors
            THEN [st1 EXCEPT
                    !.invocations = Append(@, [visitor |-> visitors[node.kindString],
                                               node |-> n, doc |-> doc]),
                    !.documents = apply(visitors[node.kindString], node, doc, @)]
            ELSE st1
       ELSE st1

\* Parser.documentForName
documentForName(idx, docs, name) ==
    IF name \in DOMAIN idx.indexExports /\ idx.indexExports[name] \in DOMAIN docs
    THEN idx.indexExports[name]
    ELSE NoDoc

\* Parser.walk
RECURSIVE walk(_, _, _, _, _)
RECURSIVE walkChildren(_, _, _, _, _)

\* walk as it would be if a class were visited with its caller's document
walk_callerDoc(tree, idx, n, doc, st) ==
    LET maybeDoc == documentForName(idx, st.documents, tree[n].name)
        doc1 == IF isClassReflection(tree[n]) /\ maybeDoc # NoDoc THEN maybeDoc ELSE doc
    IN walkChildren(tree, idx, children(tree, n), doc1, visit(tree, n, doc, st))

walk(tree, idx, n, doc, st) ==
    LET maybeDoc == documentForName(idx, st.documents, tree[n].name)
        doc1 == IF isClassReflection(tree[n]) /\ maybeDoc # NoDoc THEN maybeDoc ELSE doc
    IN walkChildren(tree, idx, children(tree, n), doc1, visit(tree, n, doc1, st))

walkChildren(tree, idx, cs, doc, st) ==
    IF cs = <<>> THEN st
    ELSE walkChildren(tree, idx, Tail(cs), doc, walk(tree, idx, Head(cs), doc, st))

\* Parser.preParseIndex
preParseIndex(file) == [indexMap |-> <<>>, indexExports |-> file]

(***************************************************************************)
(* Inputs of the Parser                                                    *)
(***************************************************************************)
NoComment == [present |-> FALSE, shortText |-> FALSE, text |-> FALSE, tags |-> FALSE]
Comment(text, tags) == [present |-> TRUE, shortText |-> TRUE, text |-> text, tags |-> tags]
Signature(parameters) == [parameters |-> parameters]

Node(name, kindString, comment, signatures, internal) ==
    [name |-> name, kindString |-> kindString, comment |-> comment,
     signatures |-> signatures, internal |-> internal]

\* the reflections a tree is built from
TreeNodes ==
    { Node("A", "Class", Comment(TRUE, TRUE), <<>>, FALSE),
      Node("B", "Class", NoComment, <<>>, FALSE),
      Node("A", "Interface", Comment(FALSE, FALSE), <<>>, FALSE),
      Node("m", "Method", NoComment, <<Signature(TRUE)>>, FALSE),
      Node("B", "Constructor", NoComment, <<>>, FALSE) }

\* the reflections Parser.visit is called with directly
VisitNodes ==
    { Node("A", k, Comment(FALSE, TRUE), <<Signature(FALSE), Signature(TRUE)>>, FALSE) :
        k \in DOMAIN visitors \cup {NoKind, "", "Constructor"} } \cup
    { Node("m", "Method", NoComment, <<Signature(TRUE)>>, TRUE),
      Node("B", "Enumeration", NoComment, <<>>, FALSE) }

\* the parent of every node of a tree of n nodes
Parents(n) == { p \in [1..n -> 0..(n - 1)] : p[1] = 0 /\ \A i \in 2..n : p[i] \in 1..(i - 1) }

\* the tree whose node i is the reflection r[i] placed under node p[i]
Tree(r, p) ==
    [i \in DOMAIN r |-> [name |-> r[i].name, kindString |-> r[i].kindString,
                         comment |-> r[i].comment, signatures |-> r[i].signatures,
                         internal |-> r[i].internal, parent |-> p[i]]]

IndexFiles ==
    { <<>>,
      [x \in {"A"} |-> "PageA"],
      [x \in {"A", "B"} |-> IF x = "A" THEN "PageA" ELSE "PageB"] }

NoCall == [op |-> "none"]
\* Parser.index before parse() has assigned it
NoIndex == [undefined |-> TRUE]

\* new Parser(typeDoc, indexTS)
Parser(tree, file) ==
    /\ typeDoc = tree
    /\ indexTS = file
    /\ index = NoIndex
    /\ documents = <<>>
    /\ visits = <<>>
    /\ invocations = <<>>
    /\ parserCall = NoCall

InitParser ==
    \E n \in 1..MaxNodes : \E p \in Parents(n) : \E r \in [1..n -> TreeNodes] :
        \E file \in IndexFiles : Parser(Tree(r, p), file)

\* a parser over a tree of one reflection, for the calls of visit
InitVisit ==
    \E p \in Parents(1) : \E r \in [1..1 -> TreeNodes] :
        \E file \in IndexFiles : Parser(Tree(r, p), file)

\* Parser.parse
Parse ==
    /\ index = NoIndex
    /\ LET idx == preParseIndex(indexTS)
           files == { idx.indexExports[x] : x \in DOMAIN idx.indexExports }
           created == [f \in files |-> <<>>]
           st == walk(typeDoc, idx, 1, NoDoc,
                      [documents |-> created, visits |-> <<>>, invocations |-> <<>>])
       IN /\ index' = idx
          /\ documents' = st.documents
          /\ visits' = st.visits
          /\ invocations' = st.invocations
          /\ parserCall' = [op |-> "parse", created |-> created]
    /\ UNCHANGED <<typeDoc, indexTS, settingsVars, handleVars>>

\* a call of Parser.visit(node, doc) on the parsed documents
Visit ==
    /\ index # NoIndex
    /\ Len(visits) < Len(typeDoc) + MaxVisitCalls
    /\ \E node \in VisitNodes, doc \in DOMAIN documents \cup {NoDoc} :
          LET one == [i \in {1} |-> node]
              st == visit(one, 1, doc,
                          [documents |-> documents, visits |-> <<>>, invocations |-> <<>>])
          IN /\ documents' = st.documents
             /\ visits' = visits \o st.visits
             /\ invocations' = invocations \o st.invocations
             /\ parserCall' = [op |-> "visit", node |-> node, doc |-> doc,
                               invoked |-> st.invocations, before |-> documents]
    /\ UNCHANGED <<typeDoc, indexTS, index, settingsVars, handleVars>>

NextParser == Parse
NextVisit == Parse \/ Visit

(***************************************************************************)
(* ElementHandle.  Every call of an async function, and every call of the  *)
(* puppeteer library, is a promise: a record with the function, its        *)
(* arguments, the place it has reached (pc), the promise it is awaiting    *)
(* (awaits, 0 for none), the promise whose code created it (by) and, once  *)
(* settled, its value or error.                                            *)
(***************************************************************************)
MaxFailures == 1
MaxKeys == 2

NoError == [name |-> "none"]

\* the errors a puppeteer call can reject with
LibErrors ==
    { [name |-> "Error",
       message |-> "Protocol error (DOM.focus): Node is detached from document"],
      [name |-> "Error", message |-> "Execution context was destroyed" ] }

\* puppeteer's ElementHandle / JSHandle / ExecutionContext methods
LibCalls ==
    { "element.getProperty", "handle.jsonValue", "handle.dispose", "element.click",
      "element.focus", "context.evaluate", "handle.press", "handle.type",
      "handle.screenshot" }

\* the methods wrapped by @wrapDescriptiveError
Decorated == {"click", "clear", "focus", "blur", "sendKeys", "type", "takeScreenshot"}

Bool(b) == IF b THEN "true" ELSE "false"

\* String.prototype.includes
Includes(s, sub) ==
    \E i \in 1..(Len(s) - Len(sub) + 1) : SubSeq(s, i, i + Len(sub) - 1) = sub

LowerLetters == "abcdefghijklmnopqrstuvwxyz"
UpperLetters == "ABCDEFGHIJKLMNOPQRSTUVWXYZ"
Char(s, i) == SubSeq(s, i, i)
MapChar(c, from, to) ==
    IF \E i \in 1..Len(from) : Char(from, i) = c
    THEN Char(to, CHOOSE i \in 1..Len(from) : Char(from, i) = c)
    ELSE c
RECURSIVE MapString(_, _, _)
MapString(s, from, to) ==
    IF Len(s) = 0 THEN ""
    ELSE MapChar(Char(s, 1), from, to) \o MapString(SubSeq(s, 2, Len(s)), from, to)
\* String.prototype.toLowerCase, toUpperCase
toLowerCase(s) == MapString(s, UpperLetters, LowerLetters)
toUpperCase(s) == MapString(s, LowerLetters, UpperLetters)

\* the DOM nodes (and one non-element JS object) a handle can point to
Element(tagName, type, selected, checked, id, isElement) ==
    [tagName |-> tagName, type |-> type, selected |-> selected, checked |-> checked,
     id |-> id, isElement |-> isElement]

Elements ==
    { Element("OPTION", "undefined", b, FALSE, "null", TRUE) : b \in BOOLEAN } \cup
    { Element("INPUT", "checkbox", FALSE, b, "agree", TRUE) : b \in BOOLEAN } \cup
    { Element("INPUT", "text", FALSE, FALSE, "null", TRUE),
      Element("SELECT", "select-one", FALSE, FALSE, "main", TRUE),
      Element("CHECKBOX", "undefined", FALSE, TRUE, "null", TRUE),
      Element("null", "undefined", FALSE, FALSE, "null", FALSE) }

\* the JSON value of a property of the node
Property(el, prop) ==
    CASE prop = "tagName" -> el.tagName
      [] prop = "type" -> el.type
      [] prop = "selected" -> Bool(el.selected)
      [] prop = "checked" -> Bool(el.checked)
      [] OTHER -> "undefined"

\* Object.values(Key).includes(key)
IsKey(key) == key \in {"Enter", "Tab"}

NewPromise(fn, args, by) ==
    [fn |-> fn, args |-> args, pc |-> "start", state |-> "pending", value |-> "undefined",
     error |-> NoError, awaits |-> 0, by |-> by, i |-> 0, interpreted |-> 0]

Resolve(ps, t, v) == [ps EXCEPT ![t].state = "resolved", ![t].value = v, ![t].pc = "done"]
Reject(ps, t, e) == [ps EXCEPT ![t].state = "rejected", ![t].error = e, ![t].pc = "done"]

\* `await f(...)`: f is called and promise t waits for it at pc
Await(ps, t, fn, args, pc) ==
    Append([ps EXCEPT ![t].awaits = Len(ps) + 1, ![t].pc = pc], NewPromise(fn, args, t))

\* `f(...)` whose promise is not awaited
NoAwait(ps, t, fn, args) == Append(ps, NewPromise(fn, args, t))

\* promise t settles the way the promise it awaited did (`return p`, or an
\* await whose rejection is not caught)
Adopt(ps, t) ==
    IF ps[ps[t].awaits].state = "resolved"
    THEN Resolve(ps, t, ps[ps[t].awaits].value)
    ELSE Reject(ps, t, ps[ps[t].awaits].error)

Failures == Cardinality({t \in DOMAIN promises :
                            promises[t].fn \in LibCalls /\ promises[t].state = "rejected"})

\* what a puppeteer call resolves to
LibValue(p) ==
    CASE p.fn = "element.getProperty" -> "JSHandle"
      [] p.fn = "handle.jsonValue" -> Property(element, p.args[1])
      [] p.fn = "context.evaluate" /\ p.args[1] = "getAttribute" ->
            IF p.args[2] = "id" THEN element.id ELSE "null"
      [] OTHER -> "undefined"

\* getProperty(element, prop), also reached through ElementHandle.tagName()
\* and ElementHandle.getProperty(key), which return its promise
getProperty(h, t) ==
    LET ps == h.promises
        prop == IF ps[t].fn = "tagName" THEN "tagName" ELSE ps[t].args[1]
    IN [h EXCEPT !.promises =
         CASE ps[t].pc = "start" -> Await(ps, t, "element.getProperty", <<prop>>, "handle")
           [] ps[t].pc = "handle" ->
                IF ps[ps[t].awaits].state = "rejected" THEN Adopt(ps, t)
                ELSE Await(ps, t, "handle.jsonValue", <<prop>>, "value")
           [] ps[t].pc = "value" ->
                IF ps[ps[t].awaits].state = "rejected" THEN Adopt(ps, t)
                ELSE Resolve(NoAwait(ps, t, "handle.dispose", <<>>), t,
                             ps[ps[t].awaits].value)]

\* domError(action)(err, target, key, callCtx) with the action and the message
\* of the detached node exchanged
domError_swapped(action, err, target, callCtx) ==
    IF ~Includes(err.message, "Node is detached from document")
    THEN [name |-> "DocumentedError", via |-> "new DocumentedError",
          message |-> "Unable to " \o action \o " " \o target \o
                      " as it is no longer in the DOM",
          callCtx |-> callCtx, cause |-> err]
    ELSE [name |-> "DocumentedError", via |-> "DocumentedError.wrapUnhandledError",
          message |-> "Unable to " \o action \o " selector " \o target,
          callCtx |-> callCtx, cause |-> err]

\* domError(action)(err, target, key, callCtx)
domError(action, err, target, callCtx) ==
    IF Includes(err.message, "Node is detached from document")
    THEN [name |-> "DocumentedError", via |-> "new DocumentedError",
          message |-> "Unable to " \o action \o " " \o target \o
                      " as it is no longer in the DOM",
          callCtx |-> callCtx, cause |-> err]
    ELSE [name |-> "DocumentedError", via |-> "DocumentedError.wrapUnhandledError",
          message |-> "Unable to " \o action \o " selector " \o target,
          callCtx |-> callCtx, cause |-> err]

\* the arguments of the @wrapDescriptiveError(...) decorating a method
errorInterpreters(propertyKey) == IF propertyKey = "click" THEN <<"click">> ELSE <<>>

\* calling undefined as a function
NotAFunction == [name |-> "TypeError", message |-> "errorInterpreters[0] is not a function"]

\* descriptor.value as it would be if a failed call were tried once more
wrapDescriptiveError_retry(h, t) ==
    LET ps == h.promises
        propertyKey == ps[t].args[1]
        callCtx == h.errorString \o "." \o propertyKey
        interpreters == errorInterpreters(propertyKey)
    IN [h EXCEPT !.promises =
         CASE ps[t].pc = "start" -> Await(ps, t, propertyKey, Tail(ps[t].args), "try")
           [] ps[t].pc = "try" ->
                IF ps[ps[t].awaits].state = "resolved" THEN Adopt(ps, t)
                ELSE IF ps[t].i = 0
                THEN Await([ps EXCEPT ![t].i = 1], t, propertyKey, Tail(ps[t].args), "try")
                ELSE IF interpreters = <<>> THEN Reject(ps, t, NotAFunction)
                ELSE Reject([ps EXCEPT ![t].interpreted = @ + 1], t,
                            domError(interpreters[1], ps[ps[t].awaits].error,
                                     h.errorString, callCtx))]

\* descriptor.value: the function wrapDescriptiveError installs
wrapDescriptiveError(h, t) ==
    LET ps == h.promises
        propertyKey == ps[t].args[1]
        callCtx == h.errorString \o "." \o propertyKey
        interpreters == errorInterpreters(propertyKey)
    IN [h EXCEPT !.promises =
         CASE ps[t].pc = "start" -> Await(ps, t, propertyKey, Tail(ps[t].args), "try")
           [] ps[t].pc = "try" ->
                IF ps[ps[t].awaits].state = "resolved" THEN Adopt(ps, t)
                ELSE IF interpreters = <<>> THEN Reject(ps, t, NotAFunction)
                ELSE Reject([ps EXCEPT ![t].interpreted = @ + 1], t,
                            domError(interpreters[1], ps[ps[t].awaits].error,
                                     h.errorString, callCtx))]

\* ElementHandle.click
click(h, t) ==
    LET ps == h.promises
    IN [h EXCEPT !.promises =
         CASE ps[t].pc = "start" -> Await(ps, t, "element.click", <<>>, "return")
           [] ps[t].pc = "return" -> Adopt(ps, t)]

\* ElementHandle.clear
clear(h, t) ==
    LET ps == h.promises
    IN [h EXCEPT !.promises =
         CASE ps[t].pc = "start" -> Await(ps, t, "tagName", <<>>, "tag")
           [] ps[t].pc = "tag" ->
                IF ps[ps[t].awaits].state = "rejected" THEN Adopt(ps, t)
                ELSE IF ps[ps[t].awaits].value = "SELECT"
                THEN Await(ps, t, "context.evaluate", <<"selectedIndex = -1">>, "end")
                ELSE IF ps[ps[t].awaits].value = "INPUT"
                THEN Await(ps, t, "context.evaluate", <<"value = ''">>, "end")
                ELSE Resolve(ps, t, "undefined")
           [] ps[t].pc = "end" ->
                IF ps[ps[t].awaits].state = "rejected" THEN Adopt(ps, t)
                ELSE Resolve(ps, t, "undefined")]

\* ElementHandle.focus
focus(h, t) ==
    LET ps == h.promises
    IN [h EXCEPT !.promises =
         CASE ps[t].pc = "start" -> Await(ps, t, "element.focus", <<>>, "return")
           [] ps[t].pc = "return" -> Adopt(ps, t)]

\* ElementHandle.blur
blur(h, t) ==
    LET ps == h.promises
    IN [h EXCEPT !.promises =
         CASE ps[t].pc = "start" -> Await(ps, t, "context.evaluate", <<"blur">>, "return")
           [] ps[t].pc = "return" -> Adopt(ps, t)]

\* handle.press(key) or handle.type(key)
KeyCall(key) == IF IsKey(key) THEN "handle.press" ELSE "handle.type"

\* ElementHandle.sendKeys as it would be if the loop went on to the next key
\* after a key call that failed
sendKeys_pastFailure(h, t) ==
    LET ps == h.promises
        keys == ps[t].args
        i == ps[t].i
    IN [h EXCEPT !.promises =
         CASE ps[t].pc = "start" ->
                IF ~element.isElement \/ keys = <<>> THEN Resolve(ps, t, "undefined")
                ELSE Await([ps EXCEPT ![t].i = 1], t, KeyCall(keys[1]), <<keys[1]>>, "loop")
           [] ps[t].pc = "loop" ->
                IF i = Len(keys) THEN Adopt(ps, t)
                ELSE Await([ps EXCEPT ![t].i = i + 1], t, KeyCall(keys[i + 1]),
                           <<keys[i + 1]>>, "loop")]

\* ElementHandle.sendKeys
sendKeys(h, t) ==
    LET ps == h.promises
        keys == ps[t].args
        i == ps[t].i
    IN [h EXCEPT !.promises =
         CASE ps[t].pc = "start" ->
                IF ~element.isElement \/ keys = <<>> THEN Resolve(ps, t, "undefined")
                ELSE Await([ps EXCEPT ![t].i = 1], t, KeyCall(keys[1]), <<keys[1]>>, "loop")
           [] ps[t].pc = "loop" ->
                IF ps[ps[t].awaits].state = "rejected" THEN Adopt(ps, t)
                ELSE IF i = Len(keys) THEN Resolve(ps, t, "undefined")
                ELSE Await([ps EXCEPT ![t].i = i + 1], t, KeyCall(keys[i + 1]),
                           <<keys[i + 1]>>, "loop")]

\* ElementHandle.type
type(h, t) ==
    LET ps == h.promises
    IN [h EXCEPT !.promises =
         CASE ps[t].pc = "start" ->
                IF ~element.isElement THEN Resolve(ps, t, "undefined")
                ELSE Await(ps, t, "handle.type", ps[t].args, "return")
           [] ps[t].pc = "return" -> Adopt(ps, t)]

\* ElementHandle.takeScreenshot
takeScreenshot(h, t) ==
    LET ps == h.promises
    IN [h EXCEPT !.promises =
         CASE ps[t].pc = "start" -> Await(ps, t, "saveScreenshot", <<"path">>, "return")
           [] ps[t].pc = "return" -> Adopt(ps, t)]

\* the function takeScreenshot hands to screenshotSaver.saveScreenshot; the
\* saver is taken to call it once and to return what it returns
saveScreenshot(h, t) ==
    LET ps == h.promises
    IN [h EXCEPT !.promises =
         CASE ps[t].pc = "start" ->
                IF ~element.isElement THEN Resolve(ps, t, "false")
                ELSE Await(ps, t, "handle.screenshot", ps[t].args, "saved")
           [] ps[t].pc = "saved" ->
                IF ps[ps[t].awaits].state = "rejected" THEN Adopt(ps, t)
                ELSE Resolve(ps, t, "true")]

\* ElementHandle.getAttribute, also reached through ElementHandle.getId()
getAttribute(h, t) ==
    LET ps == h.promises
        key == IF ps[t].fn = "getId" THEN "id" ELSE ps[t].args[1]
    IN [h EXCEPT !.promises =
         CASE ps[t].pc = "start" ->
                IF ~element.isElement THEN Resolve(ps, t, "null")
                ELSE Await(ps, t, "context.evaluate", <<"getAttribute", key>>, "return")
           [] ps[t].pc = "return" -> Adopt(ps, t)]

\* ElementHandle.initErrorString
initErrorString(h, t) ==
    LET ps == h.promises
        tag == IF ps[t].value = "null" THEN "element-tag" ELSE ps[t].value
        id == ps[ps[t].awaits].value
        foundVia == ps[t].args[1]
        estr == "<" \o toLowerCase(tag)
                \o (IF id # "null" THEN " id='#" \o id \o "'" ELSE "")
                \o (IF foundVia # "null" THEN " found using '" \o foundVia \o "'" ELSE "")
                \o ">"
    IN CASE ps[t].pc = "start" ->
              [h EXCEPT !.promises = Await(ps, t, "tagName", <<>>, "tag")]
         [] ps[t].pc = "tag" ->
              [h EXCEPT !.promises =
                 IF ps[ps[t].awaits].state = "rejected" THEN Adopt(ps, t)
                 ELSE Await([ps EXCEPT ![t].value = ps[ps[t].awaits].value], t,
                            "getId", <<>>, "id")]
         [] ps[t].pc = "id" ->
              IF ps[ps[t].awaits].state = "rejected"
              THEN [h EXCEPT !.promises = Adopt(ps, t)]
              ELSE [promises |-> Resolve(ps, t, "this"), errorString |-> estr]

\* ElementHandle.isSelectable
isSelectable(h, t) ==
    LET ps == h.promises
        tagName == ps[ps[t].awaits].value
        inputType == toLowerCase(tagName)
    IN [h EXCEPT !.promises =
         CASE ps[t].pc = "start" -> Await(ps, t, "tagName", <<>>, "tag")
           [] ps[t].pc = "tag" ->
                IF ps[ps[t].awaits].state = "rejected" THEN Adopt(ps, t)
                ELSE IF tagName = "OPTION" THEN Resolve(ps, t, "true")
                ELSE IF tagName = "INPUT"
                THEN Resolve(ps, t, Bool(inputType = "checkbox" \/ inputType = "radio"))
                ELSE Resolve(ps, t, "false")]

\* ToBoolean: a promise, like every object, is truthy
Truthy(v) == v \notin {"false", "null", "undefined", ""}
PromiseObject == "[object Promise]"

\* ElementHandle.isSelected
isSelected(h, t) ==
    LET ps == h.promises
        tagName == ps[ps[t].awaits].value
        upper == IF Truthy(tagName) THEN toUpperCase(tagName) ELSE tagName
        propertyName == IF "CHECKBOX" = upper \/ "RADIO" = upper THEN "checked"
                        ELSE "selected"
    IN [h EXCEPT !.promises =
         CASE ps[t].pc = "start" ->
                \* await !this.isSelectable(): the promise is negated, then awaited
                [NoAwait(ps, t, "isSelectable", <<>>) EXCEPT
                    ![t].pc = "check", ![t].value = Bool(~Truthy(PromiseObject))]
           [] ps[t].pc = "check" ->
                IF Truthy(ps[t].value)
                THEN Reject(ps, t, [name |-> "Error",
                                    message |-> "Element is not selectable"])
                ELSE Await(ps, t, "tagName", <<>>, "tag")
           [] ps[t].pc = "tag" ->
                IF ps[ps[t].awaits].state = "rejected" THEN Adopt(ps, t)
                ELSE Resolve(NoAwait(ps, t, "getProperty", <<propertyName>>), t,
                             Bool(Truthy(PromiseObject)))]

(***************************************************************************)
(* The event loop.  A promise that is neither settled nor waiting for a    *)
(* pending promise runs; a function that was just called runs before its   *)
(* caller goes on, and the microtasks run to completion before the browser *)
(* answers the next puppeteer call.                                        *)
(***************************************************************************)
Runnable(ps) ==
    { t \in DOMAIN ps :
        /\ ps[t].state = "pending"
        /\ ps[t].fn \notin LibCalls
        /\ ps[t].awaits # 0 => ps[ps[t].awaits].state # "pending" }

Step(h, t) ==
    LET fn == h.promises[t].fn
    IN CASE fn \in {"tagName", "getProperty"} -> getProperty(h, t)
         [] fn = "descriptor.value" -> wrapDescriptiveError(h, t)
         [] fn = "click" -> click(h, t)
         [] fn = "clear" -> clear(h, t)
         [] fn = "focus" -> focus(h, t)
         [] fn = "blur" -> blur(h, t)
         [] fn = "sendKeys" -> sendKeys(h, t)
         [] fn = "type" -> type(h, t)
         [] fn = "takeScreenshot" -> takeScreenshot(h, t)
         [] fn = "saveScreenshot" -> saveScreenshot(h, t)
         [] fn \in {"getAttribute", "getId"} -> getAttribute(h, t)
         [] fn = "initErrorString" -> initErrorString(h, t)
         [] fn = "isSelectable" -> isSelectable(h, t)
         [] fn = "isSelected" -> isSelected(h, t)

RECURSIVE Run(_)
Run(h) ==
    IF Runnable(h.promises) = {} THEN h
    ELSE Run(Step(h, CHOOSE t \in Runnable(h.promises) :
                        \A u \in Runnable(h.promises) : u <= t))

(***************************************************************************)
(* Calls of the ElementHandle's methods                                    *)
(***************************************************************************)
KeyArgs == UNION { [1..n -> {"a", "Enter"}] : n \in 0..MaxKeys }

Arguments(op) ==
    CASE op = "sendKeys" -> KeyArgs
      [] op = "type" -> {<<"hello">>}
      [] op = "getProperty" -> {<<"checked">>}
      [] op = "getAttribute" -> {<<"id">>}
      [] op = "initErrorString" -> {<<"null">>, <<"css">>}
      [] OTHER -> {<<>>}

Operations ==
    Decorated \cup {"tagName", "getProperty", "getAttribute", "isSelectable", "isSelected",
                    "initErrorString"}

Quiescent == \A t \in DOMAIN promises : promises[t].state # "pending"

\* a test script calls a method of the handle once the previous call is over
Call ==
    /\ Quiescent
    /\ \E op \in Operations : \E args \in Arguments(op) :
          LET first == IF op \in Decorated
                       THEN NewPromise("descriptor.value", <<op>> \o args, 0)
                       ELSE NewPromise(op, args, 0)
              h == Run([promises |-> <<first>>, errorString |-> errorString])
          IN promises' = h.promises /\ errorString' = h.errorString
    /\ UNCHANGED <<element, settingsVars, parserVars>>

\* the browser completes a puppeteer call
LibResolve ==
    \E t \in DOMAIN promises :
        /\ promises[t].fn \in LibCalls
        /\ promises[t].state = "pending"
        /\ LET h == Run([promises |-> Resolve(promises, t, LibValue(promises[t])),
                         errorString |-> errorString])
           IN promises' = h.promises /\ errorString' = h.errorString
        /\ UNCHANGED <<element, settingsVars, parserVars>>

\* the browser fails a puppeteer call
LibReject ==
    \E t \in DOMAIN promises :
        /\ promises[t].fn \in LibCalls
        /\ promises[t].state = "pending"
        /\ Failures < MaxFailures
        /\ \E e \in LibErrors :
              LET h == Run([promises |-> Reject(promises, t, e),
                            errorString |-> errorString])
              IN promises' = h.promises /\ errorString' = h.errorString
        /\ UNCHANGED <<element, settingsVars, parserVars>>

\* new ElementHandle(element)
InitHandle ==
    /\ element \in Elements
    /\ errorString = "<element-handle>"
    /\ promises = <<>>

NextHandle == Call \/ LibResolve \/ LibReject

IdleSettings ==
    /\ settings = [waitTimeout |-> Undefined, actionDelay |-> Undefined,
                   stepDelay |-> Undefined, duration |-> Undefined]
    /\ input = settings
    /\ normalizeCalls = 0

IdleHandle ==
    /\ element = Element("null", "undefined", FALSE, FALSE, "null", FALSE)
    /\ errorString = "<element-handle>"
    /\ promises = <<>>

IdleParser ==
    /\ typeDoc = <<>>
    /\ indexTS = <<>>
    /\ index = NoIndex
    /\ documents = <<>>
    /\ visits = <<>>
    /\ invocations = <<>>
    /\ parserCall = NoCall

\* normalizeSettings applied to a settings object
SettingsInit == InitSettings /\ IdleParser /\ IdleHandle
SpecSettings == SettingsInit /\ [][NextSettings]_vars

\* an ElementHandle constructed over a puppeteer handle and called by a script
Init == InitHandle /\ IdleSettings /\ IdleParser
Next == NextHandle
Spec == Init /\ [][Next]_vars

\* a Parser constructed over a reflection tree and an index file, and parsed
ParserInit == InitParser /\ IdleSettings /\ IdleHandle
SpecParser == ParserInit /\ [][NextParser]_vars

\* a parsed Parser whose visit method is called on single reflections
VisitInit == InitVisit /\ IdleSettings /\ IdleHandle
SpecVisit == VisitInit /\ [][NextVisit]_vars

(***************************************************************************)
(* Claims about the Parser                                                 *)
(***************************************************************************)
\* the visitor each kind of the table is registered with
RegisteredVisitor(k) ==
    CASE k = "Variable" -> "visitVariable"
      [] k = "Module" -> "visitClass"
      [] k = "Enumeration" -> "visitClass"
      [] k = "Class" -> "visitClass"
      [] k = "Interface" -> "visitClass"
      [] k = "Function" -> "visitFunction"
      [] k = "Property" -> "visitProperty"
      [] k = "Method" -> "visitMethod"
      [] k = "External module" -> "visitExternalModule"
      [] k = "Type alias" -> "visitAlias"
      [] k = "Object literal" -> "visitObjectLiteral"
      [] OTHER -> "none"

\* C7: a call of Parser.visit on a node whose kindString is a key of the
\* visitor table invokes exactly the visitor registered for that kind, once,
\* with that node and the current document; on a node without kindString or
\* with a kindString outside the table no visitor runs and no document is
\* modified.
C7_VisitDispatch ==
    parserCall.op = "visit" =>
        IF RegisteredVisitor(parserCall.node.kindString) # "none"
        THEN parserCall.invoked =
                <<[visitor |-> RegisteredVisitor(parserCall.node.kindString),
                   node |-> 1, doc |-> parserCall.doc]>>
        ELSE parserCall.invoked = <<>> /\ documents = parserCall.before

C7_Witness ==
    /\ parserCall.op = "visit"
    /\ parserCall.node.kindString = "Object literal"
    /\ parserCall.doc # NoDoc
    /\ Len(parserCall.invoked) = 1

\* position of node n in the visit order
Pos(n) == CHOOSE i \in 1..Len(visits) : visits[i].node = n

RECURSIVE IsAncestorOrSelf(_, _)
IsAncestorOrSelf(a, n) ==
    IF n = 0 THEN FALSE
    ELSE IF a = n THEN TRUE
    ELSE IsAncestorOrSelf(a, typeDoc[n].parent)

\* the document of the nearest ancestor-or-self class whose name is exported
RECURSIVE NearestClassDocument(_)
NearestClassDocument(n) ==
    IF n = 0 THEN NoDoc
    ELSE IF typeDoc[n].kindString = "Class" /\ typeDoc[n].name \in DOMAIN indexTS
    THEN indexTS[typeDoc[n].name]
    ELSE NearestClassDocument(typeDoc[n].parent)

\* C8: Parser.walk terminates having visited every node exactly once in
\* pre-order, each node with the document of its nearest ancestor-or-self
\* class reflection whose name maps to a created document (the caller's
\* undefined document when there is none), and a document no node was
\* visited with is not written.
C8_WalkPreOrder ==
    parserCall.op = "parse" =>
        /\ Len(visits) = Len(typeDoc)
        /\ \A n \in DOMAIN typeDoc : \E i \in 1..Len(visits) : visits[i].node = n
        /\ \A n \in DOMAIN typeDoc : typeDoc[n].parent # 0 => Pos(typeDoc[n].parent) < Pos(n)
        /\ \A a \in DOMAIN typeDoc, b \in DOMAIN typeDoc :
              (a < b /\ typeDoc[a].parent = typeDoc[b].parent) =>
                  \A d \in DOMAIN typeDoc : IsAncestorOrSelf(a, d) => Pos(d) < Pos(b)
        /\ \A i \in 1..Len(visits) : visits[i].doc = NearestClassDocument(visits[i].node)
        /\ \A f \in DOMAIN documents :
              (\A i \in 1..Len(visits) : visits[i].doc # f) => documents[f] = <<>>

C8_Witness ==
    /\ parserCall.op = "parse"
    /\ Len(visits) >= 4
    /\ \E i \in 1..Len(visits) :
          /\ typeDoc[visits[i].node].kindString = "Method"
          /\ visits[i].doc = "PageA"
          /\ typeDoc[typeDoc[visits[i].node].parent].name = "B"
          /\ typeDoc[typeDoc[visits[i].node].parent].kindString = "Class"
    /\ \E n \in DOMAIN typeDoc : Pos(n) # n

(***************************************************************************)
(* Claims about the ElementHandle                                          *)
(***************************************************************************)
\* the call in progress is a decorated method: promises[1] is the wrapper and
\* promises[2] the original method it called
DecoratedCall == promises # <<>> /\ promises[1].fn = "descriptor.value"
Settled(t) == promises[t].state # "pending"

\* C1: when the original method of a decorated operation fails with an error
\* e, the operation fails with a DocumentedError whose call context is
\* '<errorString>.<operation>' and whose cause is e.
C1_AlwaysDocumentedError ==
    (DecoratedCall /\ Len(promises) >= 2 /\ promises[2].state = "rejected") =>
        /\ promises[1].state = "rejected"
        /\ promises[1].error.name = "DocumentedError"
        /\ promises[1].error.callCtx = errorString \o "." \o promises[1].args[1]
        /\ promises[1].error.cause = promises[2].error

\* C2: a failed click throws 'Unable to click <errorString> as it is no longer
\* in the DOM' when the error's message contains 'Node is detached from
\* document' and otherwise the error of DocumentedError.wrapUnhandledError
\* with 'Unable to click selector <errorString>'; both with the original
\* error as cause and the call context '<errorString>.click'.
C2_ClickError ==
    (DecoratedCall /\ promises[1].args[1] = "click" /\ Len(promises) >= 2
        /\ promises[2].state = "rejected") =>
        /\ promises[1].state = "rejected"
        /\ promises[1].error.cause = promises[2].error
        /\ promises[1].error.callCtx = errorString \o ".click"
        /\ IF Includes(promises[2].error.message, "Node is detached from document")
           THEN /\ promises[1].error.via = "new DocumentedError"
                /\ promises[1].error.message =
                      "Unable to click " \o errorString \o " as it is no longer in the DOM"
           ELSE /\ promises[1].error.via = "DocumentedError.wrapUnhandledError"
                /\ promises[1].error.message = "Unable to click selector " \o errorString

C2_Witness ==
    /\ DecoratedCall /\ promises[1].args[1] = "click"
    /\ promises[1].state = "rejected"
    /\ promises[1].error.via = "new DocumentedError"
    /\ errorString = "<input id='#agree' found using 'css'>"

\* the calls of the original method made by the wrapper
BodyCalls == { t \in DOMAIN promises : promises[t].by = 1 }

\* C3: one call of a decorated operation invokes the original method exactly
\* once; if that succeeds its result is returned unchanged and no error
\* interpreter runs; if it fails the call ends in a thrown error.
C3_NoRecoveryNoRetry ==
    DecoratedCall =>
        /\ BodyCalls = {2}
        /\ Settled(2) = Settled(1)
        /\ promises[2].state = "resolved" =>
              /\ promises[1].state = "resolved"
              /\ promises[1].value = promises[2].value
              /\ promises[1].interpreted = 0
        /\ promises[2].state = "rejected" => promises[1].state = "rejected"

C3_Witness ==
    /\ DecoratedCall
    /\ promises[1].args = <<"sendKeys", "a", "Enter">>
    /\ promises[1].state = "rejected"
    /\ \E t \in DOMAIN promises : promises[t].fn = "handle.press"

\* C5: once an operation has returned, every puppeteer call it issued has
\* settled and was awaited by the code that issued it.
C5_EverythingAwaited ==
    (promises # <<>> /\ Settled(1)) =>
        \A t \in DOMAIN promises :
            promises[t].fn \in LibCalls =>
                /\ Settled(t)
                /\ \E u \in DOMAIN promises : promises[u].awaits = t

\* the element's state of being checked or selected
CheckedOrSelected ==
    IF element.type \in {"checkbox", "radio"} THEN element.checked ELSE element.selected

\* C6: isSelected resolves to true exactly when the element's 'selected'
\* property (its 'checked' property for a checkbox or radio) is truthy.
C6_IsSelectedValue ==
    (promises # <<>> /\ promises[1].fn = "isSelected" /\ promises[1].state = "resolved") =>
        promises[1].value = Bool(CheckedOrSelected)

\* C9: isSelected rejects with 'Element is not selectable' whenever
\* isSelectable resolves to false, and reads the selected / checked property
\* only when isSelectable resolves to true.
C9_NotSelectableRejects ==
    (promises # <<>> /\ promises[1].fn = "isSelected") =>
        /\ (\E t \in DOMAIN promises :
                /\ promises[t].fn = "isSelectable"
                /\ promises[t].state = "resolved"
                /\ promises[t].value = "false") =>
              (Settled(1) =>
                  /\ promises[1].state = "rejected"
                  /\ promises[1].error.message = "Element is not selectable")
        /\ (\E t \in DOMAIN promises :
                /\ promises[t].fn = "element.getProperty"
                /\ promises[t].args[1] \in {"selected", "checked"}) =>
              (\E t \in DOMAIN promises :
                  /\ promises[t].fn = "isSelectable"
                  /\ promises[t].state = "resolved"
                  /\ promises[t].value = "true")

\* the puppeteer calls made so far by the call in progress
IssuedCalls == { t \in DOMAIN promises : promises[t].fn \in LibCalls }

\* C11: sendKeys(k1..kn) issues one call to the underlying handle per key, in
\* argument order, each started only after the previous one has completed:
\* press(k) when k is a value of the Key enum and type(k) otherwise; no call is
\* issued for the keys after one whose call failed, and without a handle from
\* asElement() no call is issued at all and sendKeys resolves without error.
C11_SendKeysInOrder ==
    (DecoratedCall /\ promises[1].args[1] = "sendKeys") =>
        LET keys == Tail(promises[1].args)
            n == Len(promises) - 2
        IN /\ IssuedCalls = 3..Len(promises)
           /\ n <= Len(keys)
           /\ \A k \in 1..n :
                 /\ promises[k + 2].by = 2
                 /\ promises[k + 2].args = <<keys[k]>>
                 /\ promises[k + 2].fn = IF IsKey(keys[k]) THEN "handle.press"
                                         ELSE "handle.type"
                 /\ k < n => promises[k + 2].state = "resolved"
           /\ (n > 0 /\ promises[n + 2].state = "rejected") => promises[2].state = "rejected"
           /\ promises[2].state = "resolved" => (n = IF element.isElement THEN Len(keys) ELSE 0)
           /\ ~element.isElement =>
                 /\ n = 0
                 /\ promises[2].state = "resolved"
                 /\ promises[1].state = "resolved"

C11_Witness ==
    /\ DecoratedCall
    /\ promises[1].args = <<"sendKeys", "Enter", "a">>
    /\ promises[1].state = "resolved"
    /\ Len(promises) = 4
    /\ promises[3].fn = "handle.press" /\ promises[4].fn = "handle.type"

\* C12: isSelectable resolves to true exactly when the element's tag name is
\* 'OPTION', or the tag name is 'INPUT' and the input's type is 'checkbox' or
\* 'radio', and to false for every other element.
C12_IsSelectableTable ==
    \A t \in DOMAIN promises :
        (promises[t].fn = "isSelectable" /\ promises[t].state = "resolved") =>
            promises[t].value =
                Bool(\/ element.tagName = "OPTION"
                     \/ /\ element.tagName = "INPUT"
                        /\ element.type \in {"checkbox", "radio"})

(***************************************************************************)
(* Idempotence of normalizeSettings                                        *)
(***************************************************************************)
\* x is absent, or a number from 0 to max
AbsentOrWithin(x, max) ==
    x = Undefined \/ (IsNumber(x) /\ x.num >= 0 /\ ~GreaterThan(x, max))

\* a numeric x is at most max
AtMost(x, max) == IsNumber(x) => ~GreaterThan(x, max)

\* x is absent or a non-negative number
AbsentOrNonNegative(x) == x = Undefined \/ (IsNumber(x) /\ x.num >= 0)

\* normalizing once more leaves the settings as one normalization made them,
\* with waitTimeout at most 1000 and both delays at most 60
NormalizedOnce ==
    /\ normalizeCalls >= 2 => settings = normalizeSettings(input)
    /\ normalizeCalls >= 1 =>
          /\ AtMost(settings.waitTimeout, 1000)
          /\ AtMost(settings.actionDelay, 60)
          /\ AtMost(settings.stepDelay, 60)

\* C13 as stated: normalizeSettings is idempotent for every settings object
\* whose waitTimeout, actionDelay and stepDelay are non-negative numbers or
\* absent: normalizeSettings(normalizeSettings(s)) equals normalizeSettings(s),
\* and after one normalization waitTimeout is at most 1000 and actionDelay and
\* stepDelay are at most 60.
C13_IdempotentAnyMagnitude ==
    (/\ AbsentOrNonNegative(input.waitTimeout)
     /\ AbsentOrNonNegative(input.actionDelay)
     /\ AbsentOrNonNegative(input.stepDelay)) => NormalizedOnce

\* C13: normalizeSettings is idempotent for every settings object whose
\* waitTimeout is absent or a number from 0 to 1,000,000 and whose actionDelay
\* and stepDelay are absent or numbers from 0 to 60,000:
\* normalizeSettings(normalizeSettings(s)) equals normalizeSettings(s), and
\* after one normalization waitTimeout is at most 1000 and actionDelay and
\* stepDelay are at most 60.
C13_IdempotentInRange ==
    (/\ AbsentOrWithin(input.waitTimeout, 1000000)
     /\ AbsentOrWithin(input.actionDelay, 60000)
     /\ AbsentOrWithin(input.stepDelay, 60000)) => NormalizedOnce

C13_Witness ==
    /\ normalizeCalls = 2
    /\ input.waitTimeout = Num(1000000) /\ settings.waitTimeout = Num(1000)
    /\ input.actionDelay = Num(60000) /\ settings.actionDelay = Num(60)
    /\ input.stepDelay = Num(61) /\ settings.stepDelay = Frac(61, 1000)

====
